---------------------------- MODULE Spec2Model ----------------------------
(***************************************************************************)
(* Session manager of neko (internal/session): authentication gate,        *)
(* session registry, host arbiter and broadcaster, as a state machine.     *)
(*                                                                         *)
(* Strings the code slices or compares character by character (the         *)
(* password token, the Authorization header) are tuples of one-character   *)
(* strings, so that bearer[0:6], bearer[7:] and strings.ToUpper are        *)
(* computed as the code computes them.                                     *)
(***************************************************************************)
EXTENDS Integers, Sequences, FiniteSets, TLC

VARIABLES
    config,     \* manager.config: [AdminPassword, Password]
    members,    \* manager.members: session id -> *SessionCtx (a reference)
    sessions,   \* every SessionCtx allocated so far, indexed by reference
    membersMu,  \* manager.membersMu: the thread that holds it, or NoThread
    host,       \* manager.host: a session reference, or NoSession (nil)
    hostMu,     \* manager.hostMu: the thread that holds it, or NoThread
    pc,         \* per thread: where it is inside the operation it runs
    frame,      \* per thread: the locals of the operation it runs
    ret,        \* the last step taken: operation, inputs, returned values
    minted,     \* how many identifiers utils.NewUID has produced
    emitted,    \* host and host_cleared events raised, oldest first
    hostLog,    \* mutations of manager.host, oldest first (history)
    created,    \* id -> the session the latest Create(id) returned (history)
    request,    \* the request of the latest Authenticate call (history)
    streaming,  \* manager.capture.Streaming()
    calls,      \* calls of wrappers, capture manager, subscribers (history)
    listeners   \* event name -> what the subscriber registered for it does

vars == <<config, members, sessions, membersMu, host, hostMu, pc, frame, ret,
          minted, emitted, hostLog, created, request, streaming, calls,
          listeners>>

---------------------------------------------------------------------------
(* Bounds of the model *)

\* SessionCtx objects allocated in one run, the two bootstrap ones included
MaxSessions == 3
\* identifiers utils.NewUID hands out in one run
MaxUids == 2
\* SetHost/ClearHost calls in one run
MaxHostOps == 2

Threads == {"t1", "t2"}

\* nil session / no lock holder
NoSession == 0
NoThread == "none"

---------------------------------------------------------------------------
(* Strings as character tuples *)

LowerChars == <<"a", "b", "c", "d", "e", "i", "m", "r", "s", "x", "y", "z">>
UpperChars == <<"A", "B", "C", "D", "E", "I", "M", "R", "S", "X", "Y", "Z">>

\* strings.ToUpper on one character: lower-case letters map to upper case,
\* everything else (upper case, space, digits) is unchanged
UpperChar(c) ==
    IF \E i \in 1..Len(LowerChars) : LowerChars[i] = c
    THEN UpperChars[CHOOSE i \in 1..Len(LowerChars) : LowerChars[i] = c]
    ELSE c

ToUpper(s) == [i \in 1..Len(s) |-> UpperChar(s[i])]

EmptyStr == <<>>
BEARER == <<"B", "E", "A", "R", "E", "R">>

\* Go slice s[lo:hi] (0-based, hi exclusive) and s[lo:]
Slice(s, lo, hi) == SubSeq(s, lo + 1, hi)
SliceFrom(s, lo) == SubSeq(s, lo + 1, Len(s))

abc == <<"a", "b", "c">>
adm == <<"a", "d", "m">>
xyz == <<"x", "y", "z">>

---------------------------------------------------------------------------
(* getToken *)

\* the mutant reads the token without the query parameter's precedence
getToken_headerFirst(r) ==
    IF Len(r.header) > 7 /\ ToUpper(Slice(r.header, 0, 6)) = BEARER
    THEN SliceFrom(r.header, 7)
    ELSE IF r.query # EmptyStr THEN r.query
    ELSE IF r.hasCookie THEN r.cookie
    ELSE EmptyStr

\* A request r: query = r.URL.Query().Get("password") ("" when absent),
\* header = r.Header.Get("Authorization") ("" when absent),
\* hasCookie/cookie = r.Cookie("password") (err == nil, and its Value).
getToken(r) ==
    IF r.query # EmptyStr THEN r.query
    ELSE IF Len(r.header) > 7 /\ ToUpper(Slice(r.header, 0, 6)) = BEARER
    THEN SliceFrom(r.header, 7)
    ELSE IF r.hasCookie THEN r.cookie
    ELSE EmptyStr

---------------------------------------------------------------------------
(* Identifiers, profiles, sessions *)

\* the identifiers utils.NewUID produces, in the order it produces them
UidNames == <<"uid1", "uid2", "uid3", "uid4", "uid5", "uid6">>
Uids == {UidNames[i] : i \in 1..MaxUids}
BootIds == {"admin", "user"}
\* the identifiers callers of Create choose themselves
CallerIds == BootIds \cup {"guest"}
AllIds == CallerIds \cup Uids

\* identifiers a caller can know: the chosen names and those minted so far
KnownIds == CallerIds \cup {UidNames[i] : i \in 1..minted}

Refs == 1..Len(sessions)
Registered == {members[i] : i \in DOMAIN members}

\* types.MemberProfile
Profile(secret, name, isAdmin) ==
    [Secret |-> secret, Name |-> name, IsAdmin |-> isAdmin]

\* &SessionCtx{id, manager, logger, profile}; connected starts false.
\* kicked is history: the outcome of the Disconnect("member deleted") call
\* Delete made on the session ("" when none was made, "ok", "failed").
NewSessionCtx(id, profile) ==
    [id |-> id, profile |-> profile, connected |-> FALSE, kicked |-> ""]

IsConnected(s) == sessions[s].connected
IsAdmin(s) == sessions[s].profile.IsAdmin

\* the record of one step
Ret(op, t, id, s, err, val) ==
    [op |-> op, t |-> t, id |-> id, session |-> s, err |-> err, val |-> val]

\* event: the event the thread is raising; resume: where the thread goes on
\* once the subscriber has returned; err: the panic that unwinds the call
NoFrame == [id |-> "", session |-> NoSession, todo |-> {}, exclude |-> {},
            filter |-> FALSE, sent |-> <<>>, failed |-> {},
            event |-> "", resume |-> "idle", err |-> ""]

\* the events of manager.emmiter that have a subscriber's wrapper
EventNames == {"host", "host_cleared", "connected", "disconnected"}
HostEvents == {"host", "host_cleared"}

\* what the callback of a subscriber does: it returns at once, or it first
\* calls back into the manager, a host operation or a registry operation
NoListener == "none"
Callbacks == {"return", "HasHost", "HasConnectedMembers"}

\* one call: of a subscriber's wrapper by the emitter ("wrapper"), of the
\* capture manager ("StartStream", "StopStream") or of a subscriber
\* ("listener") by a wrapper
Call(name, event, s) == [name |-> name, event |-> event, session |-> s]

ErrPanic == "interface conversion: interface {} is nil, not *session.SessionCtx"

Idle(t) == pc[t] = "idle"

ErrNoPassword == "no password provided"
ErrInvalidPassword == "invalid password"
ErrNewUID == "uid: entropy"
ErrMemberNotFound == "Member not found."
ErrDisconnect == "disconnect failed"

---------------------------------------------------------------------------
(* Inputs *)

Configs == [AdminPassword : {adm, abc}, Password : {abc, EmptyStr}]

Queries == {EmptyStr, abc, xyz}
Headers == {
    EmptyStr,
    <<"B", "e", "a", "r", "e", "r", " ", "a", "b", "c">>,
    <<"b", "e", "a", "r", "e", "r", " ", "a", "d", "m">>,
    <<"B", "e", "a", "r", "e", "r", "X", "a", "b", "c">>,
    <<"B", "e", "a", "r", "e", "r", " ">>,
    <<"B", "a", "s", "i", "c", " ", "a", "b", "c">> }
Cookies == {EmptyStr, abc, adm}

Request(q, h, has, c) ==
    [query |-> q, header |-> h, hasCookie |-> has, cookie |-> c]
NoRequest == Request(EmptyStr, EmptyStr, FALSE, EmptyStr)

Requests ==
    {Request(q, h, TRUE, c) : q \in Queries, h \in Headers, c \in Cookies}
    \cup {Request(q, h, FALSE, EmptyStr) : q \in Queries, h \in Headers}

\* requests that carry the token in the query parameter only
QueryRequests ==
    {Request(q, EmptyStr, FALSE, EmptyStr) : q \in {abc, adm, xyz}}

Profiles == {Profile(xyz, "Member", FALSE)}

\* the exclude collections Broadcast is called with
Excludes == {{}, {"guest"}, {"admin", "user"}, {"uid1"}}

---------------------------------------------------------------------------
(* New: the state after construction *)

InitWith(configs) ==
    /\ config \in configs
    /\ sessions = <<
         NewSessionCtx("admin", Profile(config.AdminPassword, "Administrator", TRUE)),
         NewSessionCtx("user", Profile(config.Password, "User", FALSE)) >>
    /\ members = ("admin" :> 1) @@ ("user" :> 2)
    /\ membersMu = NoThread
    /\ host = NoSession
    /\ hostMu = NoThread
    /\ pc = [t \in Threads |-> "idle"]
    /\ frame = [t \in Threads |-> NoFrame]
    /\ ret = Ret("New", NoThread, "", NoSession, "", FALSE)
    /\ minted = 0
    /\ emitted = <<>>
    /\ hostLog = <<>>
    /\ created = [i \in AllIds |-> IF i = "admin" THEN 1 ELSE IF i = "user" THEN 2 ELSE NoSession]
    /\ request = NoRequest
    /\ streaming = FALSE
    /\ calls = <<>>
    /\ listeners = [e \in EventNames |-> NoListener]

Init == InitWith({[AdminPassword |-> adm, Password |-> abc]})

\* every configuration of Configs
InitConfigs == InitWith(Configs)

---------------------------------------------------------------------------
(* Registry: Create, Get, Delete *)

\* the mutant inserts only when the id is new
CreateMembers_keepOld(id, s) == members @@ (id :> s)

\* manager.members[id] = session
CreateMembers(id, s) == (id :> s) @@ members

\* the mutant leaves the entry in the map
DeleteMembers_keep(id) == members

\* delete(manager.members, id)
DeleteMembers(id) == [i \in DOMAIN members \ {id} |-> members[i]]

\* the body of Create under the lock: allocate the SessionCtx and store it
Register(id, profile) ==
    /\ sessions' = Append(sessions, NewSessionCtx(id, profile))
    /\ members' = CreateMembers(id, Len(sessions) + 1)
    /\ created' = [created EXCEPT ![id] = Len(sessions) + 1]

Create(t, id, profile) ==
    /\ Idle(t)
    /\ membersMu = NoThread
    /\ Register(id, profile)
    /\ ret' = Ret("Create", t, id, Len(sessions) + 1, "", TRUE)
    /\ UNCHANGED <<config, streaming, calls, listeners, membersMu, host,
                   hostMu, pc, frame, minted, emitted, hostLog, request>>

Get(t, id) ==
    /\ Idle(t)
    /\ membersMu = NoThread
    /\ ret' = IF id \in DOMAIN members
              THEN Ret("Get", t, id, members[id], "", TRUE)
              ELSE Ret("Get", t, id, NoSession, "", FALSE)
    /\ UNCHANGED <<config, streaming, calls, listeners, members, sessions,
                   membersMu, host, hostMu, pc, frame, minted, emitted,
                   hostLog, created, request>>

\* the mutant reports success for an unknown id
DeleteNotFound_nil(t, id) ==
    /\ ret' = Ret("Delete", t, id, NoSession, "", FALSE)
    /\ UNCHANGED <<members, membersMu, pc, frame, created>>

\* if !ok { return fmt.Errorf("Member not found.") }
DeleteNotFound(t, id) ==
    /\ ret' = Ret("Delete", t, id, NoSession, ErrMemberNotFound, FALSE)
    /\ UNCHANGED <<members, membersMu, pc, frame, created>>

\* Delete up to delete(manager.members, id): the lock is taken; an unknown
\* id returns the error (the deferred Unlock runs), a known one is removed
\* from the map and the lock stays held.
Delete(t, id) ==
    /\ Idle(t)
    /\ membersMu = NoThread
    /\ \/ /\ id \notin DOMAIN members
          /\ DeleteNotFound(t, id)
       \/ /\ id \in DOMAIN members
          /\ membersMu' = t
          /\ members' = DeleteMembers(id)
          /\ created' = [created EXCEPT ![id] = NoSession]
          /\ frame' = [frame EXCEPT ![t] =
                         [NoFrame EXCEPT !.id = id, !.session = members[id]]]
          /\ pc' = [pc EXCEPT ![t] = "Delete.IsConnected"]
          /\ ret' = Ret("Delete.delete", t, id, members[id], "", FALSE)
    /\ UNCHANGED <<config, streaming, calls, listeners, sessions, host,
                   hostMu, minted, emitted, hostLog, request>>

\* if session.IsConnected() { ... }; return nil
DeleteIsConnected(t) ==
    /\ pc[t] = "Delete.IsConnected"
    /\ \/ /\ IsConnected(frame[t].session)
          /\ pc' = [pc EXCEPT ![t] = "Delete.Disconnect"]
          /\ ret' = Ret("Delete.IsConnected", t, frame[t].id, frame[t].session, "", TRUE)
          /\ UNCHANGED <<membersMu, frame>>
       \/ /\ ~IsConnected(frame[t].session)
          /\ pc' = [pc EXCEPT ![t] = "idle"]
          /\ frame' = [frame EXCEPT ![t] = NoFrame]
          /\ membersMu' = NoThread
          /\ ret' = Ret("Delete", t, frame[t].id, frame[t].session, "", FALSE)
    /\ UNCHANGED <<config, streaming, calls, listeners, members, sessions,
                   host, hostMu, minted, emitted, hostLog, created, request>>

\* session.Disconnect("member deleted"): it succeeds, and the session is no
\* longer connected, or it fails and the session stays as it was
Disconnect(s, ok) ==
    sessions' = [sessions EXCEPT ![s].connected = IF ok THEN FALSE ELSE @,
                                 ![s].kicked = IF ok THEN "ok" ELSE "failed"]

\* the mutant removes the entry only once the disconnect has succeeded
DeleteDisconnect_keepOnError(t) ==
    /\ pc[t] = "Delete.Disconnect"
    /\ \E ok \in BOOLEAN :
          /\ Disconnect(frame[t].session, ok)
          /\ members' = IF ok THEN members
                        ELSE (frame[t].id :> frame[t].session) @@ members
          /\ ret' = Ret("Delete", t, frame[t].id, frame[t].session,
                        IF ok THEN "" ELSE ErrDisconnect, TRUE)
    /\ pc' = [pc EXCEPT ![t] = "idle"]
    /\ frame' = [frame EXCEPT ![t] = NoFrame]
    /\ membersMu' = NoThread
    /\ UNCHANGED <<config, streaming, calls, listeners, host, hostMu, minted,
                   emitted, hostLog, created, request>>

\* return session.Disconnect("member deleted"), then the deferred Unlock
DeleteDisconnect(t) ==
    /\ pc[t] = "Delete.Disconnect"
    /\ \E ok \in BOOLEAN :
          /\ Disconnect(frame[t].session, ok)
          /\ ret' = Ret("Delete", t, frame[t].id, frame[t].session,
                        IF ok THEN "" ELSE ErrDisconnect, TRUE)
    /\ pc' = [pc EXCEPT ![t] = "idle"]
    /\ frame' = [frame EXCEPT ![t] = NoFrame]
    /\ membersMu' = NoThread
    /\ UNCHANGED <<config, streaming, calls, listeners, members, host, hostMu,
                   minted, emitted, hostLog, created, request>>

\* the transport layer marks a session connected or disconnected
SetConnected(s, connected) ==
    /\ sessions[s].connected # connected
    /\ sessions' = [sessions EXCEPT ![s].connected = connected]
    /\ ret' = Ret("SetConnected", NoThread, "", NoSession, "", FALSE)
    /\ UNCHANGED <<config, streaming, calls, listeners, members, membersMu,
                   host, hostMu, pc, frame, minted, emitted, hostLog, created,
                   request>>

---------------------------------------------------------------------------
(* Authenticate *)

\* utils.NewUID(32): the next identifier, never one handed out before
NewUID == UidNames[minted + 1]

\* manager.New(id, isAdmin): registers a session whose profile carries only
\* the isAdmin flag
New(id, isAdmin) == Register(id, Profile(EmptyStr, "", isAdmin))

\* the mutant registers the session under the bootstrap account's id
AuthRegister_bootstrap(id, isAdmin) ==
    New(IF isAdmin THEN "admin" ELSE "user", isAdmin)

\* return manager.New(id, isAdmin), nil
AuthRegister(id, isAdmin) == New(id, isAdmin)

\* the mutant takes the flag from the user password
AuthIsAdmin_user(token) == token = config.Password

\* isAdmin := (token == manager.config.AdminPassword)
AuthIsAdmin(token) == token = config.AdminPassword
\* isUser := (token == manager.config.Password)
AuthIsUser(token) == token = config.Password

Authenticate(t, r) ==
    /\ Idle(t)
    /\ request' = r
    /\ LET token == getToken(r) IN
       \/ /\ token = EmptyStr
          /\ ret' = Ret("Authenticate", t, "", NoSession, ErrNoPassword, FALSE)
          /\ UNCHANGED <<members, sessions, created, minted>>
       \/ /\ token # EmptyStr
          /\ ~AuthIsAdmin(token) /\ ~AuthIsUser(token)
          /\ ret' = Ret("Authenticate", t, "", NoSession, ErrInvalidPassword, FALSE)
          /\ UNCHANGED <<members, sessions, created, minted>>
       \/ /\ token # EmptyStr
          /\ AuthIsAdmin(token) \/ AuthIsUser(token)
          /\ ret' = Ret("Authenticate", t, "", NoSession, ErrNewUID, FALSE)
          /\ UNCHANGED <<members, sessions, created, minted>>
       \/ /\ token # EmptyStr
          /\ AuthIsAdmin(token) \/ AuthIsUser(token)
          /\ minted < MaxUids
          /\ membersMu = NoThread
          /\ minted' = minted + 1
          /\ AuthRegister(NewUID, AuthIsAdmin(token))
          /\ ret' = Ret("Authenticate", t, NewUID, Len(sessions) + 1, "", TRUE)
    /\ UNCHANGED <<config, streaming, calls, listeners, membersMu, host,
                   hostMu, pc, frame, emitted, hostLog>>

---------------------------------------------------------------------------
(* Host: HasHost, SetHost, GetHost, ClearHost *)

HostMutation(op, old, new) == [op |-> op, old |-> old, new |-> new]
Event(name, payload) == [name |-> name, payload |-> payload]

HasHost(t) ==
    /\ Idle(t)
    /\ hostMu = NoThread
    /\ ret' = Ret("HasHost", t, "", NoSession, "", host # NoSession)
    /\ UNCHANGED <<config, streaming, calls, listeners, members, sessions,
                   membersMu, host, hostMu, pc, frame, minted, emitted,
                   hostLog, created, request>>

GetHost(t) ==
    /\ Idle(t)
    /\ hostMu = NoThread
    /\ ret' = Ret("GetHost", t, "", host, "", FALSE)
    /\ UNCHANGED <<config, streaming, calls, listeners, members, sessions,
                   membersMu, host, hostMu, pc, frame, minted, emitted,
                   hostLog, created, request>>

\* the mutant does not take hostMu
SetHost_noLock(t, s) ==
    /\ Idle(t)
    /\ host' = s
    /\ hostLog' = Append(hostLog, HostMutation("SetHost", host, s))
    /\ frame' = [frame EXCEPT ![t] = [NoFrame EXCEPT !.session = s]]
    /\ pc' = [pc EXCEPT ![t] = "SetHost.Emit"]
    /\ ret' = Ret("SetHost.host", t, "", s, "", FALSE)
    /\ UNCHANGED <<config, streaming, calls, listeners, members, sessions,
                   membersMu, hostMu, minted, emitted, created, request>>

\* SetHost up to manager.host = host, the lock held
SetHost(t, s) ==
    /\ Idle(t)
    /\ hostMu = NoThread
    /\ hostMu' = t
    /\ host' = s
    /\ hostLog' = Append(hostLog, HostMutation("SetHost", host, s))
    /\ frame' = [frame EXCEPT ![t] = [NoFrame EXCEPT !.session = s]]
    /\ pc' = [pc EXCEPT ![t] = "SetHost.Emit"]
    /\ ret' = Ret("SetHost.host", t, "", s, "", FALSE)
    /\ UNCHANGED <<config, streaming, calls, listeners, members, sessions,
                   membersMu, minted, emitted, created, request>>

\* manager.emmiter.Emit("host", host) with no subscriber, then the deferred
\* Unlock
SetHostEmit(t) ==
    /\ pc[t] = "SetHost.Emit"
    /\ listeners["host"] = NoListener
    /\ emitted' = Append(emitted, Event("host", frame[t].session))
    /\ hostMu' = NoThread
    /\ pc' = [pc EXCEPT ![t] = "idle"]
    /\ frame' = [frame EXCEPT ![t] = NoFrame]
    /\ ret' = Ret("SetHost", t, "", frame[t].session, "", FALSE)
    /\ UNCHANGED <<config, streaming, calls, listeners, members, sessions,
                   membersMu, host, minted, hostLog, created, request>>

\* the mutant reads the host for the event after it has cleared it
ClearHost_readAfter(t) ==
    /\ Idle(t)
    /\ hostMu = NoThread
    /\ hostMu' = t
    /\ host' = NoSession
    /\ hostLog' = Append(hostLog, HostMutation("ClearHost", host, NoSession))
    /\ frame' = [frame EXCEPT ![t] = [NoFrame EXCEPT !.session = NoSession]]
    /\ pc' = [pc EXCEPT ![t] = "ClearHost.Emit"]
    /\ ret' = Ret("ClearHost.host", t, "", NoSession, "", FALSE)
    /\ UNCHANGED <<config, streaming, calls, listeners, members, sessions,
                   membersMu, minted, emitted, created, request>>

\* ClearHost up to manager.host = nil, the lock held
ClearHost(t) ==
    /\ Idle(t)
    /\ hostMu = NoThread
    /\ hostMu' = t
    /\ host' = NoSession
    /\ hostLog' = Append(hostLog, HostMutation("ClearHost", host, NoSession))
    /\ frame' = [frame EXCEPT ![t] = [NoFrame EXCEPT !.session = host]]
    /\ pc' = [pc EXCEPT ![t] = "ClearHost.Emit"]
    /\ ret' = Ret("ClearHost.host", t, "", host, "", FALSE)
    /\ UNCHANGED <<config, streaming, calls, listeners, members, sessions,
                   membersMu, minted, emitted, created, request>>

\* manager.emmiter.Emit("host_cleared", host) with no subscriber, then the
\* deferred Unlock
ClearHostEmit(t) ==
    /\ pc[t] = "ClearHost.Emit"
    /\ listeners["host_cleared"] = NoListener
    /\ emitted' = Append(emitted, Event("host_cleared", frame[t].session))
    /\ hostMu' = NoThread
    /\ pc' = [pc EXCEPT ![t] = "idle"]
    /\ frame' = [frame EXCEPT ![t] = NoFrame]
    /\ ret' = Ret("ClearHost", t, "", frame[t].session, "", FALSE)
    /\ UNCHANGED <<config, streaming, calls, listeners, members, sessions,
                   membersMu, host, minted, hostLog, created, request>>

---------------------------------------------------------------------------
(* Broadcast *)

\* utils.ArrayIn(id, exclude): whether id is an element of the collection
ArrayIn(id, exclude) == id \in exclude

\* the mutant also skips the sessions that are not administrators
BroadcastSkips_adminOnly(id, s, filter, exclude) ==
    \/ ~IsConnected(s) \/ ~IsAdmin(s)
    \/ filter /\ ArrayIn(id, exclude)

\* whether the loop body skips the entry (the two continue statements):
\* filter is exclude != nil
BroadcastSkips(id, s, filter, exclude) ==
    \/ ~IsConnected(s)
    \/ filter /\ ArrayIn(id, exclude)

\* Broadcast up to the range statement: the lock is taken and the entries
\* of the map are all still to visit
Broadcast(t, filter, exclude) ==
    /\ Idle(t)
    /\ membersMu = NoThread
    /\ membersMu' = t
    /\ frame' = [frame EXCEPT ![t] =
                   [NoFrame EXCEPT !.todo = DOMAIN members, !.filter = filter,
                                   !.exclude = exclude]]
    /\ pc' = [pc EXCEPT ![t] = "Broadcast.range"]
    /\ ret' = Ret("Broadcast.Lock", t, "", NoSession, "", filter)
    /\ UNCHANGED <<config, streaming, calls, listeners, members, sessions,
                   host, hostMu, minted, emitted, hostLog, created, request>>

\* one iteration of the loop, on any entry not visited yet (the order of a
\* map's iteration is unspecified); session.Send succeeds or fails
BroadcastRange(t) ==
    /\ pc[t] = "Broadcast.range"
    /\ \E id \in frame[t].todo :
          \/ /\ BroadcastSkips(id, members[id], frame[t].filter, frame[t].exclude)
             /\ frame' = [frame EXCEPT ![t].todo = @ \ {id}]
             /\ ret' = Ret("Broadcast.continue", t, id, members[id], "", FALSE)
          \/ /\ ~BroadcastSkips(id, members[id], frame[t].filter, frame[t].exclude)
             /\ \E ok \in BOOLEAN :
                   /\ frame' = [frame EXCEPT
                                  ![t].todo = @ \ {id},
                                  ![t].sent = Append(@, id),
                                  ![t].failed = IF ok THEN @ ELSE @ \cup {id}]
                   /\ ret' = Ret("Broadcast.Send", t, id, members[id],
                                 IF ok THEN "" ELSE "send failed", TRUE)
    /\ UNCHANGED <<config, streaming, calls, listeners, members, sessions,
                   membersMu, host, hostMu, pc, minted, emitted, hostLog,
                   created, request>>

\* the loop is over: the deferred Unlock
BroadcastReturn(t) ==
    /\ pc[t] = "Broadcast.range"
    /\ frame[t].todo = {}
    /\ membersMu' = NoThread
    /\ pc' = [pc EXCEPT ![t] = "idle"]
    /\ ret' = Ret("Broadcast", t, "", NoSession, "", frame[t].filter)
    /\ UNCHANGED <<config, streaming, calls, listeners, members, sessions,
                   host, hostMu, frame, minted, emitted, hostLog, created,
                   request>>

\* the mutant forgets the administrator test and skips as Broadcast does
AdminBroadcastSkips_everyone(id, s, filter, exclude) ==
    \/ ~IsConnected(s)
    \/ filter /\ ArrayIn(id, exclude)

\* whether the loop body of AdminBroadcast skips the entry: the session is
\* not connected or not an administrator, or its id is in the collection
AdminBroadcastSkips(id, s, filter, exclude) ==
    \/ ~IsConnected(s) \/ ~IsAdmin(s)
    \/ filter /\ ArrayIn(id, exclude)

\* AdminBroadcast up to the range statement
AdminBroadcast(t, filter, exclude) ==
    /\ Idle(t)
    /\ membersMu = NoThread
    /\ membersMu' = t
    /\ frame' = [frame EXCEPT ![t] =
                   [NoFrame EXCEPT !.todo = DOMAIN members, !.filter = filter,
                                   !.exclude = exclude]]
    /\ pc' = [pc EXCEPT ![t] = "AdminBroadcast.range"]
    /\ ret' = Ret("AdminBroadcast.Lock", t, "", NoSession, "", filter)
    /\ UNCHANGED <<config, streaming, calls, listeners, members, sessions,
                   host, hostMu, minted, emitted, hostLog, created, request>>

\* the mutant returns at the first delivery that fails
AdminBroadcastRange_abortOnError(t) ==
    /\ pc[t] = "AdminBroadcast.range"
    /\ \E id \in frame[t].todo :
          \/ /\ AdminBroadcastSkips(id, members[id], frame[t].filter,
                                    frame[t].exclude)
             /\ frame' = [frame EXCEPT ![t].todo = @ \ {id}]
             /\ ret' = Ret("AdminBroadcast.continue", t, id, members[id], "",
                           FALSE)
          \/ /\ ~AdminBroadcastSkips(id, members[id], frame[t].filter,
                                     frame[t].exclude)
             /\ \E ok \in BOOLEAN :
                   /\ frame' = [frame EXCEPT
                                  ![t].todo = IF ok THEN @ \ {id} ELSE {},
                                  ![t].sent = Append(@, id),
                                  ![t].failed = IF ok THEN @ ELSE @ \cup {id}]
                   /\ ret' = Ret("AdminBroadcast.Send", t, id, members[id],
                                 IF ok THEN "" ELSE "send failed", TRUE)
    /\ UNCHANGED <<config, streaming, calls, listeners, members, sessions,
                   membersMu, host, hostMu, pc, minted, emitted, hostLog,
                   created, request>>

\* one iteration of the loop of AdminBroadcast; the error of session.Send is
\* logged and the loop goes on
AdminBroadcastRange(t) ==
    /\ pc[t] = "AdminBroadcast.range"
    /\ \E id \in frame[t].todo :
          \/ /\ AdminBroadcastSkips(id, members[id], frame[t].filter,
                                    frame[t].exclude)
             /\ frame' = [frame EXCEPT ![t].todo = @ \ {id}]
             /\ ret' = Ret("AdminBroadcast.continue", t, id, members[id], "",
                           FALSE)
          \/ /\ ~AdminBroadcastSkips(id, members[id], frame[t].filter,
                                     frame[t].exclude)
             /\ \E ok \in BOOLEAN :
                   /\ frame' = [frame EXCEPT
                                  ![t].todo = @ \ {id},
                                  ![t].sent = Append(@, id),
                                  ![t].failed = IF ok THEN @ ELSE @ \cup {id}]
                   /\ ret' = Ret("AdminBroadcast.Send", t, id, members[id],
                                 IF ok THEN "" ELSE "send failed", TRUE)
    /\ UNCHANGED <<config, streaming, calls, listeners, members, sessions,
                   membersMu, host, hostMu, pc, minted, emitted, hostLog,
                   created, request>>

\* the loop of AdminBroadcast is over: the deferred Unlock
AdminBroadcastReturn(t) ==
    /\ pc[t] = "AdminBroadcast.range"
    /\ frame[t].todo = {}
    /\ membersMu' = NoThread
    /\ pc' = [pc EXCEPT ![t] = "idle"]
    /\ ret' = Ret("AdminBroadcast", t, "", NoSession, "", frame[t].filter)
    /\ UNCHANGED <<config, streaming, calls, listeners, members, sessions,
                   host, hostMu, frame, minted, emitted, hostLog, created,
                   request>>


---------------------------------------------------------------------------
(* Events: subscribers, their wrappers, and the stream *)

\* emmiter.On(event, wrapper of listener); the model keeps one subscriber for
\* an event
On(event, listener) ==
    /\ listeners[event] = NoListener
    /\ listeners' = [listeners EXCEPT ![event] = listener]
    /\ ret' = Ret("On", NoThread, event, NoSession, "", FALSE)
    /\ UNCHANGED <<config, streaming, calls, members, sessions, membersMu,
                   host, hostMu, pc, frame, minted, emitted, hostLog, created,
                   request>>

OnHost(listener) == On("host", listener)
OnHostCleared(listener) == On("host_cleared", listener)
OnConnected(listener) == On("connected", listener)
OnDisconnected(listener) == On("disconnected", listener)

\* the mutant releases hostMu before it raises the event
SetHostEmitOn_unlocked(t) ==
    /\ pc[t] = "SetHost.Emit"
    /\ listeners["host"] # NoListener
    /\ emitted' = Append(emitted, Event("host", frame[t].session))
    /\ calls' = Append(calls, Call("wrapper", "host", frame[t].session))
    /\ hostMu' = NoThread
    /\ frame' = [frame EXCEPT ![t].event = "host",
                              ![t].resume = "SetHost.Unlock"]
    /\ pc' = [pc EXCEPT ![t] = "wrapper"]
    /\ ret' = Ret("SetHost.Emit", t, "", frame[t].session, "", FALSE)
    /\ UNCHANGED <<config, streaming, listeners, members, sessions,
                   membersMu, host, minted, hostLog, created, request>>

\* manager.emmiter.Emit("host", host) with a subscriber: the emitter calls
\* the wrapper of OnHost on the thread of SetHost, which holds hostMu
SetHostEmitOn(t) ==
    /\ pc[t] = "SetHost.Emit"
    /\ listeners["host"] # NoListener
    /\ emitted' = Append(emitted, Event("host", frame[t].session))
    /\ calls' = Append(calls, Call("wrapper", "host", frame[t].session))
    /\ frame' = [frame EXCEPT ![t].event = "host",
                              ![t].resume = "SetHost.Unlock"]
    /\ pc' = [pc EXCEPT ![t] = "wrapper"]
    /\ ret' = Ret("SetHost.Emit", t, "", frame[t].session, "", FALSE)
    /\ UNCHANGED <<config, streaming, listeners, members, sessions,
                   membersMu, host, hostMu, minted, hostLog, created,
                   request>>

\* manager.emmiter.Emit("host_cleared", host) with a subscriber
ClearHostEmitOn(t) ==
    /\ pc[t] = "ClearHost.Emit"
    /\ listeners["host_cleared"] # NoListener
    /\ emitted' = Append(emitted, Event("host_cleared", frame[t].session))
    /\ calls' = Append(calls, Call("wrapper", "host_cleared", frame[t].session))
    /\ frame' = [frame EXCEPT ![t].event = "host_cleared",
                              ![t].resume = "ClearHost.Unlock"]
    /\ pc' = [pc EXCEPT ![t] = "wrapper"]
    /\ ret' = Ret("ClearHost.Emit", t, "", frame[t].session, "", FALSE)
    /\ UNCHANGED <<config, streaming, listeners, members, sessions,
                   membersMu, host, hostMu, minted, hostLog, created,
                   request>>

\* the mutant converts a nil payload to a nil session and calls the listener
Wrapper_nilSession(t) ==
    /\ pc[t] = "wrapper"
    /\ calls' = Append(calls, Call("listener", frame[t].event,
                                   frame[t].session))
    /\ pc' = [pc EXCEPT ![t] = "listener"]
    /\ frame' = frame
    /\ ret' = Ret("listener", t, frame[t].event, frame[t].session, "", FALSE)
    /\ UNCHANGED <<config, streaming, listeners, members, sessions, membersMu,
                   host, hostMu, minted, emitted, hostLog, created, request>>

\* listener(payload[0].(*SessionCtx)): the type assertion panics on a nil
\* payload and the listener is not called; the panic unwinds the call that
\* raised the event, running its deferred Unlock
Wrapper(t) ==
    /\ pc[t] = "wrapper"
    /\ IF frame[t].session = NoSession
       THEN /\ calls' = calls
            /\ pc' = [pc EXCEPT ![t] = frame[t].resume]
            /\ frame' = [frame EXCEPT ![t].err = ErrPanic]
            /\ ret' = Ret("wrapper", t, frame[t].event, NoSession, ErrPanic,
                          FALSE)
       ELSE /\ calls' = Append(calls, Call("listener", frame[t].event,
                                           frame[t].session))
            /\ pc' = [pc EXCEPT ![t] = "listener"]
            /\ frame' = frame
            /\ ret' = Ret("listener", t, frame[t].event, frame[t].session, "",
                          FALSE)
    /\ UNCHANGED <<config, streaming, listeners, members, sessions, membersMu,
                   host, hostMu, minted, emitted, hostLog, created, request>>

\* the frame of a thread that goes on at pc after the subscriber
Resumed(t) ==
    [frame EXCEPT ![t] = IF frame[t].resume = "idle" THEN NoFrame ELSE @]

\* a callback that calls nothing of the manager returns
ListenerReturn(t) ==
    /\ pc[t] = "listener"
    /\ listeners[frame[t].event] = "return"
    /\ pc' = [pc EXCEPT ![t] = frame[t].resume]
    /\ frame' = Resumed(t)
    /\ ret' = Ret("listener.return", t, frame[t].event, frame[t].session, "",
                  FALSE)
    /\ UNCHANGED <<config, streaming, calls, listeners, members, sessions,
                   membersMu, host, hostMu, minted, emitted, hostLog, created,
                   request>>

\* whether some registered session is connected (the result of
\* HasConnectedMembers)
HasConnectedMembers == \E id \in DOMAIN members : IsConnected(members[id])

\* the callback calls HasHost or HasConnectedMembers: the Lock of the mutex
\* the operation takes, which sync.Mutex grants only when no thread holds it,
\* the calling thread included
ListenerCall(t) ==
    /\ pc[t] = "listener"
    /\ listeners[frame[t].event] \in Callbacks \ {"return"}
    /\ IF listeners[frame[t].event] = "HasHost"
       THEN hostMu = NoThread /\ hostMu' = t /\ membersMu' = membersMu
       ELSE membersMu = NoThread /\ membersMu' = t /\ hostMu' = hostMu
    /\ pc' = [pc EXCEPT ![t] = "listener.call"]
    /\ ret' = Ret("listener.Lock", t, frame[t].event, frame[t].session, "",
                  FALSE)
    /\ UNCHANGED <<config, streaming, calls, listeners, members, sessions,
                   host, frame, minted, emitted, hostLog, created, request>>

\* the operation the callback called returns, with its deferred Unlock, and
\* the callback returns
ListenerCallReturn(t) ==
    /\ pc[t] = "listener.call"
    /\ IF listeners[frame[t].event] = "HasHost"
       THEN /\ hostMu' = NoThread /\ membersMu' = membersMu
            /\ ret' = Ret("HasHost", t, frame[t].event, frame[t].session, "",
                          host # NoSession)
       ELSE /\ membersMu' = NoThread /\ hostMu' = hostMu
            /\ ret' = Ret("HasConnectedMembers", t, frame[t].event,
                          frame[t].session, "", HasConnectedMembers)
    /\ pc' = [pc EXCEPT ![t] = frame[t].resume]
    /\ frame' = Resumed(t)
    /\ UNCHANGED <<config, streaming, calls, listeners, members, sessions,
                   host, minted, emitted, hostLog, created, request>>

\* the deferred Unlock of SetHost or ClearHost, after the emitter has returned
\* or while the panic of the wrapper unwinds
HostUnlock(t) ==
    /\ pc[t] \in {"SetHost.Unlock", "ClearHost.Unlock"}
    /\ hostMu' = NoThread
    /\ pc' = [pc EXCEPT ![t] = "idle"]
    /\ frame' = [frame EXCEPT ![t] = NoFrame]
    /\ ret' = Ret(IF pc[t] = "SetHost.Unlock" THEN "SetHost" ELSE "ClearHost",
                  t, "", frame[t].session, frame[t].err, FALSE)
    /\ UNCHANGED <<config, streaming, calls, listeners, members, sessions,
                   membersMu, host, minted, emitted, hostLog, created,
                   request>>

\* the session's SetConnected, called by the transport layer on thread t:
\* it writes the flag and raises connected or disconnected, and the emitter
\* calls the wrapper of OnConnected or OnDisconnected on the same thread
SessionSetConnected(t, s, connected) ==
    /\ Idle(t)
    /\ sessions[s].connected # connected
    /\ sessions' = [sessions EXCEPT ![s].connected = connected]
    /\ LET event == IF connected THEN "connected" ELSE "disconnected" IN
         /\ IF listeners[event] = NoListener
            THEN pc' = pc /\ frame' = frame /\ calls' = calls
            ELSE /\ calls' = Append(calls, Call("wrapper", event, s))
                 /\ pc' = [pc EXCEPT ![t] =
                             IF connected THEN "connected.Streaming"
                                          ELSE "disconnected.Streaming"]
                 /\ frame' = [frame EXCEPT ![t] =
                                [NoFrame EXCEPT !.session = s,
                                                !.event = event]]
         /\ ret' = Ret(event, t, sessions[s].id, s, "", connected)
    /\ UNCHANGED <<config, streaming, listeners, members, membersMu,
                   host, hostMu, minted, emitted, hostLog, created, request>>

\* the wrapper of OnConnected: if !manager.capture.Streaming()
OnConnectedStreaming(t) ==
    /\ pc[t] = "connected.Streaming"
    /\ pc' = [pc EXCEPT ![t] = IF streaming THEN "wrapper"
                                            ELSE "connected.StartStream"]
    /\ ret' = Ret("connected.Streaming", t, "", frame[t].session, "",
                  streaming)
    /\ UNCHANGED <<config, streaming, calls, listeners, members, sessions,
                   membersMu, host, hostMu, frame, minted, emitted, hostLog,
                   created, request>>

\* manager.capture.StartStream()
OnConnectedStartStream(t) ==
    /\ pc[t] = "connected.StartStream"
    /\ streaming' = TRUE
    /\ calls' = Append(calls, Call("StartStream", "connected",
                                   frame[t].session))
    /\ pc' = [pc EXCEPT ![t] = "wrapper"]
    /\ ret' = Ret("StartStream", t, "", frame[t].session, "", TRUE)
    /\ UNCHANGED <<config, listeners, members, sessions, membersMu, host,
                   hostMu, frame, minted, emitted, hostLog, created, request>>

\* the mutant asks HasConnectedMembers whether the stream is on or not
OnDisconnectedStreaming_always(t) ==
    /\ pc[t] = "disconnected.Streaming"
    /\ pc' = [pc EXCEPT ![t] = "disconnected.HasConnectedMembers"]
    /\ ret' = Ret("disconnected.Streaming", t, "", frame[t].session, "",
                  streaming)
    /\ UNCHANGED <<config, streaming, calls, listeners, members, sessions,
                   membersMu, host, hostMu, frame, minted, emitted, hostLog,
                   created, request>>

\* the wrapper of OnDisconnected: if manager.capture.Streaming() && ...; the
\* second operand is evaluated only when the first is true
OnDisconnectedStreaming(t) ==
    /\ pc[t] = "disconnected.Streaming"
    /\ pc' = [pc EXCEPT ![t] = IF streaming
                               THEN "disconnected.HasConnectedMembers"
                               ELSE "wrapper"]
    /\ ret' = Ret("disconnected.Streaming", t, "", frame[t].session, "",
                  streaming)
    /\ UNCHANGED <<config, streaming, calls, listeners, members, sessions,
                   membersMu, host, hostMu, frame, minted, emitted, hostLog,
                   created, request>>

\* ... && !manager.HasConnectedMembers(): the call takes membersMu, reads the
\* flags of the registered sessions and releases it
OnDisconnectedHasConnectedMembers(t) ==
    /\ pc[t] = "disconnected.HasConnectedMembers"
    /\ membersMu = NoThread
    /\ pc' = [pc EXCEPT ![t] = IF HasConnectedMembers
                               THEN "wrapper"
                               ELSE "disconnected.StopStream"]
    /\ ret' = Ret("HasConnectedMembers", t, "", frame[t].session, "",
                  HasConnectedMembers)
    /\ UNCHANGED <<config, streaming, calls, listeners, members, sessions,
                   membersMu, host, hostMu, frame, minted, emitted, hostLog,
                   created, request>>

\* manager.capture.StopStream()
OnDisconnectedStopStream(t) ==
    /\ pc[t] = "disconnected.StopStream"
    /\ streaming' = FALSE
    /\ calls' = Append(calls, Call("StopStream", "disconnected",
                                   frame[t].session))
    /\ pc' = [pc EXCEPT ![t] = "wrapper"]
    /\ ret' = Ret("StopStream", t, "", frame[t].session, "", FALSE)
    /\ UNCHANGED <<config, listeners, members, sessions, membersMu, host,
                   hostMu, frame, minted, emitted, hostLog, created, request>>

\* session.Disconnect("member deleted") succeeds and the session raises
\* disconnected before it returns: the wrapper of OnDisconnected runs on the
\* thread of Delete, which holds membersMu
DeleteDisconnectEmit(t) ==
    /\ pc[t] = "Delete.Disconnect"
    /\ listeners["disconnected"] # NoListener
    /\ Disconnect(frame[t].session, TRUE)
    /\ calls' = Append(calls, Call("wrapper", "disconnected",
                                   frame[t].session))
    /\ frame' = [frame EXCEPT ![t].event = "disconnected",
                              ![t].resume = "Delete.return"]
    /\ pc' = [pc EXCEPT ![t] = "disconnected.Streaming"]
    /\ ret' = Ret("disconnected", t, frame[t].id, frame[t].session, "", FALSE)
    /\ UNCHANGED <<config, streaming, listeners, members, membersMu,
                   host, hostMu, minted, emitted, hostLog, created, request>>

\* session.Disconnect has returned nil: Delete returns it, then the deferred
\* Unlock
DeleteReturn(t) ==
    /\ pc[t] = "Delete.return"
    /\ membersMu' = NoThread
    /\ pc' = [pc EXCEPT ![t] = "idle"]
    /\ frame' = [frame EXCEPT ![t] = NoFrame]
    /\ ret' = Ret("Delete", t, frame[t].id, frame[t].session, "", TRUE)
    /\ UNCHANGED <<config, streaming, calls, listeners, members, sessions,
                   host, hostMu, minted, emitted, hostLog, created, request>>

---------------------------------------------------------------------------
(* Specifications *)

\* membersMu serialises the registry's operations and is held from the first
\* to the last step of Delete and of Broadcast, so a second caller of the
\* registry could only wait: one caller and the transport layer give every
\* interleaving. The host operations run on two threads.
Caller == {"t1"}

\* Create while the run may still allocate a SessionCtx
BoundedCreate(callers) ==
    /\ Len(sessions) < MaxSessions
    /\ \E t \in callers, id \in KnownIds, p \in Profiles : Create(t, id, p)

\* the registry
Next ==
    \/ BoundedCreate(Caller)
    \/ \E t \in Caller, id \in AllIds : Get(t, id)
    \/ \E t \in Caller, id \in AllIds : Delete(t, id)
    \/ \E t \in Caller : DeleteIsConnected(t)
    \/ \E t \in Caller : DeleteDisconnect(t)
    \/ \E s \in Refs, c \in BOOLEAN : SetConnected(s, c)

Spec == Init /\ [][Next]_vars

\* the authentication gate on every request of Requests, under every
\* configuration
NextToken ==
    \E t \in Caller, r \in Requests : Authenticate(t, r)

SpecToken == InitConfigs /\ [][NextToken]_vars

\* the authentication gate beside Create and Get
NextAuth ==
    \/ \E t \in Caller, r \in QueryRequests : Authenticate(t, r)
    \/ BoundedCreate(Caller)
    \/ \E t \in Caller, id \in AllIds : Get(t, id)

SpecAuth == Init /\ [][NextAuth]_vars

\* the host arbiter on two threads, beside Create and Get
NextHost ==
    \/ \E t \in Threads : HasHost(t)
    \/ \E t \in Threads : GetHost(t)
    \/ /\ Len(hostLog) < MaxHostOps
       /\ \E t \in Threads, s \in Refs \cup {NoSession} : SetHost(t, s)
    \/ \E t \in Threads : SetHostEmit(t)
    \/ /\ Len(hostLog) < MaxHostOps
       /\ \E t \in Threads : ClearHost(t)
    \/ \E t \in Threads : ClearHostEmit(t)
    \/ BoundedCreate(Threads)
    \/ \E t \in Threads, id \in AllIds : Get(t, id)

SpecHost == Init /\ [][NextHost]_vars

\* the broadcaster, beside Create and the transport layer
NextBroadcast ==
    \/ \E t \in Caller, f \in BOOLEAN, x \in Excludes : Broadcast(t, f, x)
    \/ \E t \in Caller : BroadcastRange(t)
    \/ \E t \in Caller : BroadcastReturn(t)
    \/ BoundedCreate(Caller)
    \/ \E s \in Refs, c \in BOOLEAN : SetConnected(s, c)

SpecBroadcast == Init /\ [][NextBroadcast]_vars

\* the profiles of the members of the fan-out specification: an administrator
\* and a plain member
MemberProfiles == {Profile(xyz, "Member", a) : a \in BOOLEAN}

\* the exclude arguments of the fan-out specification: none (nil), a
\* collection without a registered id, a collection with registered ids
FanoutExcludes == {<<FALSE, {}>>, <<TRUE, {"guest"}>>,
                   <<TRUE, {"admin", "uid1"}>>}

\* both fan-outs, beside Create and the transport layer
NextFanout ==
    \/ \E t \in Caller, x \in FanoutExcludes : Broadcast(t, x[1], x[2])
    \/ \E t \in Caller : BroadcastRange(t)
    \/ \E t \in Caller : BroadcastReturn(t)
    \/ \E t \in Caller, x \in FanoutExcludes : AdminBroadcast(t, x[1], x[2])
    \/ \E t \in Caller : AdminBroadcastRange(t)
    \/ \E t \in Caller : AdminBroadcastReturn(t)
    \/ /\ Len(sessions) < MaxSessions
       /\ \E t \in Caller, id \in KnownIds, p \in MemberProfiles :
             Create(t, id, p)
    \/ \E s \in Refs, c \in BOOLEAN : SetConnected(s, c)

SpecFanout == Init /\ [][NextFanout]_vars


\* how many events the emitter hands to a wrapper in the stream
\* specifications
MaxEvents == 4

\* the events handed to a wrapper so far
Raised == Cardinality({i \in 1..Len(calls) : calls[i].name = "wrapper"})

\* the subscribers of connected and disconnected, the transport layer and the
\* two wrappers, beside Create
NextStreamOf(threads) ==
    \/ OnConnected("return")
    \/ OnDisconnected("return")
    \/ /\ Raised < MaxEvents
       /\ \E t \in threads, s \in Refs, c \in BOOLEAN :
             SessionSetConnected(t, s, c)
    \/ \E t \in threads : OnConnectedStreaming(t)
    \/ \E t \in threads : OnConnectedStartStream(t)
    \/ \E t \in threads : OnDisconnectedStreaming(t)
    \/ \E t \in threads : OnDisconnectedHasConnectedMembers(t)
    \/ \E t \in threads : OnDisconnectedStopStream(t)
    \/ \E t \in threads : Wrapper(t)
    \/ \E t \in threads : ListenerReturn(t)
    \/ BoundedCreate(threads)

\* one thread raises the events: they are handled one at a time
NextStream == NextStreamOf(Caller)

SpecStream == Init /\ [][NextStream]_vars


\* the host operations beside the registry's, on one caller; no subscriber
\* is registered
NextHostRegistry ==
    \/ /\ Len(hostLog) < MaxHostOps
       /\ \E t \in Caller, s \in Refs \cup {NoSession} : SetHost(t, s)
    \/ \E t \in Caller : SetHostEmit(t)
    \/ /\ Len(hostLog) < MaxHostOps
       /\ \E t \in Caller : ClearHost(t)
    \/ \E t \in Caller : ClearHostEmit(t)
    \/ BoundedCreate(Caller)
    \/ \E t \in Caller, id \in CallerIds : Delete(t, id)
    \/ \E t \in Caller : DeleteIsConnected(t)
    \/ \E t \in Caller : DeleteDisconnect(t)
    \/ \E s \in Refs, c \in BOOLEAN : SetConnected(s, c)

SpecHostRegistry == Init /\ [][NextHostRegistry]_vars


\* the host operations on two threads with subscribers of host and
\* host_cleared, whose callbacks return or call back into the manager
NextCallbacks ==
    \/ \E b \in Callbacks : OnHost(b)
    \/ \E b \in Callbacks : OnHostCleared(b)
    \/ \E t \in Threads : HasHost(t)
    \/ /\ Len(hostLog) < MaxHostOps
       /\ \E t \in Threads, s \in Refs \cup {NoSession} : SetHost(t, s)
    \/ \E t \in Threads : SetHostEmit(t)
    \/ \E t \in Threads : SetHostEmitOn(t)
    \/ /\ Len(hostLog) < MaxHostOps
       /\ \E t \in Threads : ClearHost(t)
    \/ \E t \in Threads : ClearHostEmit(t)
    \/ \E t \in Threads : ClearHostEmitOn(t)
    \/ \E t \in Threads : Wrapper(t)
    \/ \E t \in Threads : ListenerReturn(t)
    \/ \E t \in Threads : ListenerCall(t)
    \/ \E t \in Threads : ListenerCallReturn(t)
    \/ \E t \in Threads : HostUnlock(t)

SpecCallbacks == Init /\ [][NextCallbacks]_vars


\* the events raised on two threads: their wrappers run concurrently. Both
\* subscribers are registered before the transport layer connects a session,
\* and the registry keeps its sessions
NextStreamRace ==
    \/ OnConnected("return")
    \/ OnDisconnected("return")
    \/ /\ Raised < MaxEvents
       /\ listeners["connected"] # NoListener
       /\ listeners["disconnected"] # NoListener
       /\ \E t \in Threads, s \in Refs, c \in BOOLEAN :
             SessionSetConnected(t, s, c)
    \/ \E t \in Threads : OnConnectedStreaming(t)
    \/ \E t \in Threads : OnConnectedStartStream(t)
    \/ \E t \in Threads : OnDisconnectedStreaming(t)
    \/ \E t \in Threads : OnDisconnectedHasConnectedMembers(t)
    \/ \E t \in Threads : OnDisconnectedStopStream(t)
    \/ \E t \in Threads : Wrapper(t)
    \/ \E t \in Threads : ListenerReturn(t)

SpecStreamRace == Init /\ [][NextStreamRace]_vars


\* Delete beside the events of the transport layer, on one thread, with the
\* subscribers of connected and disconnected; the forced disconnect of Delete
\* returns before the session raises disconnected (DeleteDisconnect) or
\* raises it before it returns (DeleteDisconnectEmit)
NextDelete ==
    \/ OnConnected("return")
    \/ OnDisconnected("return")
    \/ /\ Raised < MaxEvents
       /\ \E t \in Caller, s \in Refs, c \in BOOLEAN :
             SessionSetConnected(t, s, c)
    \/ \E t \in Caller : OnConnectedStreaming(t)
    \/ \E t \in Caller : OnConnectedStartStream(t)
    \/ \E t \in Caller : OnDisconnectedStreaming(t)
    \/ \E t \in Caller : OnDisconnectedHasConnectedMembers(t)
    \/ \E t \in Caller : OnDisconnectedStopStream(t)
    \/ \E t \in Caller : Wrapper(t)
    \/ \E t \in Caller : ListenerReturn(t)
    \/ \E t \in Caller, id \in CallerIds : Delete(t, id)
    \/ \E t \in Caller : DeleteIsConnected(t)
    \/ \E t \in Caller : DeleteDisconnect(t)
    \/ \E t \in Caller : DeleteDisconnectEmit(t)
    \/ \E t \in Caller : DeleteReturn(t)

SpecDelete == Init /\ [][NextDelete]_vars


---------------------------------------------------------------------------
(* Authenticate: properties *)

AuthToken == getToken(request)
Authenticated == ret.op = "Authenticate" /\ ret.err = ""

\* C1 as stated: for every configuration and non-empty token, Authenticate
\* succeeds with isAdmin true when the token is the administrator password,
\* succeeds with isAdmin false when it is the user password, and fails as
\* invalid for any other token.
C1_AsStated ==
    (ret.op = "Authenticate" /\ AuthToken # EmptyStr) =>
        /\ AuthToken = config.AdminPassword =>
              Authenticated /\ IsAdmin(ret.session)
        /\ AuthToken = config.Password =>
              Authenticated /\ ~IsAdmin(ret.session)
        /\ AuthToken \notin {config.AdminPassword, config.Password} =>
              ret.err = ErrInvalidPassword

\* C1 amended: for every configuration and non-empty token, Authenticate
\* fails as invalid exactly when the token is neither password; otherwise it
\* fails only with the identifier minter's error, and when it succeeds the
\* session's isAdmin flag is true iff the token is the administrator
\* password (also when the user password is the same string).
C1_Authenticate ==
    (ret.op = "Authenticate" /\ AuthToken # EmptyStr) =>
        /\ ret.err = ErrInvalidPassword <=>
              AuthToken \notin {config.AdminPassword, config.Password}
        /\ ret.err \in {"", ErrInvalidPassword, ErrNewUID}
        /\ ret.err = "" =>
              /\ ret.session \in Refs
              /\ IsAdmin(ret.session) <=> (AuthToken = config.AdminPassword)

\* a token that is both passwords has authenticated, as administrator
C1_Witness ==
    /\ Authenticated
    /\ AuthToken = config.AdminPassword
    /\ AuthToken = config.Password
    /\ IsAdmin(ret.session)

\* C2: Authenticate changes the registry only when it succeeds; a success
\* adds exactly one entry, a new session under an identifier no caller has
\* seen before, and leaves every other entry (the bootstrap ones included)
\* as it was.
C2_AuthRegistry ==
    [][ret'.op = "Authenticate" =>
        IF ret'.err # ""
        THEN members' = members /\ sessions' = sessions
        ELSE /\ ret'.id \notin KnownIds
             /\ ret'.id \notin DOMAIN members
             /\ ret'.session \notin Refs
             /\ DOMAIN members' = DOMAIN members \cup {ret'.id}
             /\ members'[ret'.id] = ret'.session
             /\ \A i \in DOMAIN members : members'[i] = members[i]
             /\ Len(sessions') = Len(sessions) + 1
             /\ \A s \in Refs : sessions'[s] = sessions[s]
             /\ sessions'[ret'.session].id = ret'.id]_vars

\* two calls with the same token have succeeded, and both sessions are
\* registered under their own ids beside the bootstrap entries
C2_Witness ==
    /\ Authenticated
    /\ \E i \in DOMAIN members \ {ret.id} :
          /\ i \in Uids
          /\ sessions[members[i]].profile = sessions[ret.session].profile
    /\ BootIds \subseteq DOMAIN members

\* the header is of the form "Bearer <token>": the scheme in any case, a
\* space, a token
IsBearerHeader(h) ==
    /\ Len(h) > 7
    /\ ToUpper(Slice(h, 0, 6)) = BEARER
    /\ h[7] = " "

\* C3 as stated: the credential is the query parameter if present, otherwise
\* the token of an Authorization header of the form "Bearer <token>",
\* otherwise the cookie's value; with none of the three, Authenticate fails
\* with the no-credential error.
C3_AsStated ==
    ret.op = "Authenticate" =>
        /\ AuthToken =
              IF request.query # EmptyStr THEN request.query
              ELSE IF IsBearerHeader(request.header)
              THEN SliceFrom(request.header, 7)
              ELSE IF request.hasCookie THEN request.cookie
              ELSE EmptyStr
        /\ ( /\ request.query = EmptyStr
             /\ ~IsBearerHeader(request.header)
             /\ ~request.hasCookie ) => ret.err = ErrNoPassword

---------------------------------------------------------------------------
(* Registry: properties *)

\* the sessions Members() returns
Members == Registered

\* C4: Create never fails; Get(id) returns the session the latest Create(id)
\* returned as long as no Delete(id) came between; a second Create(id)
\* replaces the first session, which Get and Members no longer return; the
\* registry holds one entry for the id, and the entries of other ids are
\* unchanged.
C4_CreateGet ==
    /\ [](ret.op = "Create" =>
            /\ ret.err = ""
            /\ ret.id \in DOMAIN members
            /\ members[ret.id] = ret.session
            /\ \A s \in Refs \ {ret.session} :
                  sessions[s].id = ret.id => s \notin Members)
    /\ [](ret.op = "Get" =>
            IF created[ret.id] # NoSession
            THEN ret.val /\ ret.session = created[ret.id]
            ELSE ~ret.val)
    /\ [][ret'.op = "Create" =>
            /\ DOMAIN members' = DOMAIN members \cup {ret'.id}
            /\ \A i \in DOMAIN members \ {ret'.id} : members'[i] = members[i]
            /\ ret'.session \notin Refs]_vars

\* Get returns the second of two sessions created under one id
C4_Witness ==
    /\ ret.op = "Get"
    /\ ret.val
    /\ \E s \in Refs \ {ret.session} : sessions[s].id = ret.id
    /\ Cardinality(DOMAIN members) > 1

\* C5: Delete(id) for an id that is not registered returns the
\* member-not-found error, leaves the registry and every session as they
\* were, and never reaches the disconnect.
C5_DeleteUnknown ==
    [][\A t \in Threads :
        ( /\ pc[t] = "idle"
          /\ ret'.t = t
          /\ ret'.op \in {"Delete", "Delete.delete"}
          /\ ret'.id \notin DOMAIN members ) =>
            /\ ret'.op = "Delete"
            /\ ret'.err = ErrMemberNotFound
            /\ members' = members
            /\ sessions' = sessions
            /\ pc'[t] = "idle"
            /\ membersMu' = NoThread]_vars

\* Delete has failed on an unknown id while a registered session is connected
C5_Witness ==
    /\ ret.op = "Delete"
    /\ ret.err = ErrMemberNotFound
    /\ ret.id \notin DOMAIN members
    /\ \E s \in Members : IsConnected(s)

Disconnecting(t) == pc[t] = "Delete.Disconnect"

\* C6 as stated: when Delete invokes the disconnect of a connected session,
\* the session is still present in the session map.
C6_AsStated ==
    \A t \in Threads : Disconnecting(t) =>
        /\ frame[t].id \in DOMAIN members
        /\ members[frame[t].id] = frame[t].session

\* C6 amended: when Delete invokes the disconnect of a connected session,
\* the entry has already been removed: the session is no longer in the
\* session map, and the registry lock is still held.
C6_DisconnectAfterRemoval ==
    \A t \in Threads : Disconnecting(t) =>
        /\ frame[t].id \notin DOMAIN members
        /\ frame[t].session \notin Members
        /\ membersMu = t

\* Delete is about to disconnect a connected session
C6_Witness ==
    \E t \in Threads : Disconnecting(t) /\ IsConnected(frame[t].session)

\* C7: when Delete(id) returns for a registered id, the id is no longer
\* registered, whatever the disconnect did; it returns the disconnect's
\* error exactly when the disconnect was invoked and failed, and success
\* otherwise; the disconnect is invoked only for a session found connected.
C7_DeleteReturns ==
    /\ []((ret.op = "Delete" /\ ret.err # ErrMemberNotFound) =>
            /\ ret.id \notin DOMAIN members
            /\ ret.session \notin Members
            /\ ret.err \in {"", ErrDisconnect}
            /\ ret.err = ErrDisconnect <=> sessions[ret.session].kicked = "failed"
            /\ ret.val <=> sessions[ret.session].kicked # "")
    /\ [][/\ \A t \in Threads :
              /\ (pc[t] = "Delete.IsConnected" /\ pc'[t] = "Delete.Disconnect")
                    => IsConnected(frame[t].session)
              /\ (pc[t] = "Delete.IsConnected" /\ pc'[t] = "idle")
                    => ~IsConnected(frame[t].session) /\ sessions' = sessions
          /\ \A s \in Refs : sessions'[s].kicked # sessions[s].kicked
                => \E u \in Threads : Disconnecting(u) /\ frame[u].session = s]_vars

\* Delete has returned the error of a failed disconnect
C7_Witness ==
    /\ ret.op = "Delete"
    /\ ret.err = ErrDisconnect
    /\ ret.id \notin DOMAIN members

---------------------------------------------------------------------------
(* Host: properties *)

Emitting == {t \in Threads : pc[t] \in {"SetHost.Emit", "ClearHost.Emit"}}

\* C8: there is one host reference, a session or none; HasHost returns true
\* iff the host GetHost returns at that point is not none; SetHost(s) makes
\* s the host whatever the host was, and ClearHost makes it none, and this
\* still holds when the call raises its event and when it returns.
C8_Host ==
    /\ host \in Refs \cup {NoSession}
    /\ ret.op = "HasHost" => (ret.val <=> host # NoSession)
    /\ ret.op = "GetHost" => ret.session = host
    /\ \A t \in Threads :
          /\ pc[t] = "SetHost.Emit" => host = frame[t].session
          /\ pc[t] = "ClearHost.Emit" => host = NoSession
    /\ ret.op = "SetHost" => host = ret.session
    /\ ret.op = "ClearHost" => host = NoSession

\* HasHost has returned true after a SetHost that replaced another host
C8_Witness ==
    /\ ret.op = "HasHost"
    /\ ret.val
    /\ Len(hostLog) = 2
    /\ hostLog[2].op = "SetHost"
    /\ hostLog[2].old # NoSession
    /\ hostLog[2].new \notin {NoSession, hostLog[2].old}

\* the event a mutation of the host has to raise
HostEvent(m) ==
    IF m.op = "SetHost" THEN Event("host", m.new)
    ELSE Event("host_cleared", m.old)

\* C9: every SetHost(s) raises one host event with payload s and every
\* ClearHost one host_cleared event with the host held before the clear (none
\* when there was none); nothing else raises an event of the two; the events
\* are raised in the order in which the host was mutated.
C9_HostEvents ==
    /\ [](/\ Len(emitted) + Cardinality(Emitting) = Len(hostLog)
           /\ \A i \in 1..Len(emitted) : emitted[i] = HostEvent(hostLog[i]))
    /\ [][emitted' # emitted =>
            /\ ret'.op \in {"SetHost", "ClearHost"}
            /\ emitted' = Append(emitted, HostEvent(hostLog[Len(emitted) + 1]))]_vars

\* a host event for a session, then the host_cleared event for that session
C9_Witness ==
    /\ Len(emitted) = 2
    /\ emitted[1].name = "host"
    /\ emitted[1].payload # NoSession
    /\ emitted[2] = Event("host_cleared", emitted[1].payload)
    /\ Emitting = {}

---------------------------------------------------------------------------
(* Broadcast: properties *)

Broadcasting(t) == pc[t] = "Broadcast.range"

\* whether Broadcast has to deliver to the entry id when it visits it
Recipient(id, filter, exclude) ==
    IsConnected(members[id]) /\ ~(filter /\ id \in exclude)

\* C10: Broadcast visits every registered session once; it attempts the
\* delivery, once, exactly when the session is connected as it is visited and
\* its id is not in the exclude collection, whether it is an administrator or
\* not; without a collection no connected session is skipped; it returns
\* only when every entry has been visited.
C10_Broadcast ==
    /\ [](\A t \in Threads : Broadcasting(t) =>
            /\ frame[t].todo \subseteq DOMAIN members
            /\ \A i, j \in 1..Len(frame[t].sent) :
                  i # j => frame[t].sent[i] # frame[t].sent[j]
            /\ \A i \in 1..Len(frame[t].sent) :
                  /\ frame[t].sent[i] \in DOMAIN members \ frame[t].todo
                  /\ ~(frame[t].filter /\ frame[t].sent[i] \in frame[t].exclude))
    /\ [][\A t \in Threads :
            /\ (~Broadcasting(t) /\ Broadcasting(t)') =>
                  frame'[t].todo = DOMAIN members /\ frame'[t].sent = <<>>
            /\ (Broadcasting(t) /\ frame'[t].todo # frame[t].todo) =>
                  \E id \in frame[t].todo :
                     /\ frame'[t].todo = frame[t].todo \ {id}
                     /\ frame'[t].sent =
                           IF Recipient(id, frame[t].filter, frame[t].exclude)
                           THEN Append(frame[t].sent, id)
                           ELSE frame[t].sent
            /\ (Broadcasting(t) /\ ~Broadcasting(t)') =>
                  frame[t].todo = {}]_vars

\* a fan-out is complete that delivered to an administrator and to another
\* session and skipped a connected session of the exclude collection
C10_Witness ==
    \E t \in Threads :
        /\ Broadcasting(t)
        /\ frame[t].todo = {}
        /\ frame[t].filter
        /\ \E x \in frame[t].exclude \cap DOMAIN members : IsConnected(members[x])
        /\ \E i, j \in 1..Len(frame[t].sent) :
              /\ IsAdmin(members[frame[t].sent[i]])
              /\ ~IsAdmin(members[frame[t].sent[j]])

---------------------------------------------------------------------------
(* AdminBroadcast and delivery failures: properties *)

AdminBroadcasting(t) == pc[t] = "AdminBroadcast.range"

\* whether AdminBroadcast has to deliver to the entry id when it visits it
AdminRecipient(id, filter, exclude) ==
    /\ IsConnected(members[id])
    /\ IsAdmin(members[id])
    /\ ~(filter /\ id \in exclude)

\* C11: AdminBroadcast visits every registered session once; it attempts the
\* delivery, once, exactly when the session is connected as it is visited, is
\* an administrator and its id is not in the exclude collection, and to no
\* other session; it returns only when every entry has been visited.
C11_AdminBroadcast ==
    /\ [](\A t \in Threads : AdminBroadcasting(t) =>
            /\ frame[t].todo \subseteq DOMAIN members
            /\ \A i, j \in 1..Len(frame[t].sent) :
                  i # j => frame[t].sent[i] # frame[t].sent[j]
            /\ \A i \in 1..Len(frame[t].sent) :
                  /\ frame[t].sent[i] \in DOMAIN members \ frame[t].todo
                  /\ IsAdmin(members[frame[t].sent[i]])
                  /\ ~(frame[t].filter /\ frame[t].sent[i] \in frame[t].exclude))
    /\ [][\A t \in Threads :
            /\ (~AdminBroadcasting(t) /\ AdminBroadcasting(t)') =>
                  frame'[t].todo = DOMAIN members /\ frame'[t].sent = <<>>
            /\ (AdminBroadcasting(t) /\ frame'[t].todo # frame[t].todo) =>
                  \E id \in frame[t].todo :
                     /\ frame'[t].todo = frame[t].todo \ {id}
                     /\ frame'[t].sent =
                           IF AdminRecipient(id, frame[t].filter,
                                             frame[t].exclude)
                           THEN Append(frame[t].sent, id)
                           ELSE frame[t].sent
            /\ (AdminBroadcasting(t) /\ ~AdminBroadcasting(t)') =>
                  frame[t].todo = {}]_vars

\* the scenario of the claim: a connected member that is no administrator and
\* a connected administrator are registered, nothing is excluded, and the
\* complete fan-out delivered to the administrator alone
C11_Witness ==
    \E t \in Threads :
        /\ AdminBroadcasting(t)
        /\ frame[t].todo = {}
        /\ ~frame[t].filter
        /\ \E u1, u2 \in DOMAIN members :
              /\ IsConnected(members[u1]) /\ ~IsAdmin(members[u1])
              /\ IsConnected(members[u2]) /\ IsAdmin(members[u2])
              /\ frame[t].sent = <<u2>>

\* a thread inside the loop of one of the two fan-outs
FanOut(t) == Broadcasting(t) \/ AdminBroadcasting(t)

\* whether the fan-out thread t runs has to deliver to the entry id
Eligible(t, id) ==
    IF Broadcasting(t)
    THEN Recipient(id, frame[t].filter, frame[t].exclude)
    ELSE AdminRecipient(id, frame[t].filter, frame[t].exclude)

FanOutSteps == {"Broadcast.Lock", "Broadcast.continue", "Broadcast.Send",
                "Broadcast", "AdminBroadcast.Lock", "AdminBroadcast.continue",
                "AdminBroadcast.Send", "AdminBroadcast"}

\* C12: a delivery that fails does not end the fan-out of Broadcast or of
\* AdminBroadcast. The failing step only takes its recipient off the entries
\* to visit; once a delivery has failed the loop still visits the other
\* entries one by one and attempts the delivery to each eligible one; a
\* recipient is never attempted twice; the call returns after the last entry,
\* with no error; no step of a fan-out changes the registry, the sessions or
\* the host.
C12_DeliveryFailure ==
    /\ [](\A t \in Threads : FanOut(t) =>
            /\ \A id \in frame[t].failed :
                  /\ id \notin frame[t].todo
                  /\ \E i \in 1..Len(frame[t].sent) : frame[t].sent[i] = id
            /\ \A i, j \in 1..Len(frame[t].sent) :
                  i # j => frame[t].sent[i] # frame[t].sent[j])
    /\ [](ret.op \in {"Broadcast", "AdminBroadcast"} => ret.err = "")
    /\ [][\A t \in Threads :
            /\ (FanOut(t) /\ frame'[t].failed # frame[t].failed) =>
                  /\ pc'[t] = pc[t]
                  /\ \E id \in frame[t].todo :
                        /\ frame'[t].failed = frame[t].failed \cup {id}
                        /\ frame'[t].todo = frame[t].todo \ {id}
                        /\ frame'[t].sent = Append(frame[t].sent, id)
            /\ (FanOut(t) /\ frame[t].failed # {}
                          /\ frame'[t].todo # frame[t].todo) =>
                  \E id \in frame[t].todo :
                     /\ frame'[t].todo = frame[t].todo \ {id}
                     /\ Eligible(t, id) <=>
                           frame'[t].sent = Append(frame[t].sent, id)
                     /\ ~Eligible(t, id) => frame'[t].sent = frame[t].sent
            /\ (FanOut(t) /\ frame[t].failed # {} /\ ~FanOut(t)') =>
                  /\ frame[t].todo = {}
                  /\ ret'.op \in {"Broadcast", "AdminBroadcast"}
                  /\ membersMu = t /\ membersMu' = NoThread]_vars
    /\ [][ret'.op \in FanOutSteps =>
            /\ members' = members /\ sessions' = sessions
            /\ host' = host /\ hostLog' = hostLog /\ created' = created]_vars

\* a fan-out has returned whose first delivery failed and whose second
\* delivery, to another recipient, succeeded
C12_Witness ==
    \E t \in Threads :
        /\ ret.op \in {"Broadcast", "AdminBroadcast"}
        /\ ret.t = t
        /\ membersMu = NoThread
        /\ Len(frame[t].sent) >= 2
        /\ frame[t].sent[1] \in frame[t].failed
        /\ frame[t].sent[2] \notin frame[t].failed

---------------------------------------------------------------------------
(* The stream: properties *)

\* the names of the calls after the i-th
Names(cs, i) == [k \in 1..(Len(cs) - i) |-> cs[i + k].name]

\* the latest call of a wrapper by the emitter
LastWrapper(cs) ==
    CHOOSE i \in 1..Len(cs) :
        /\ cs[i].name = "wrapper"
        /\ \A j \in (i + 1)..Len(cs) : cs[j].name # "wrapper"

\* whether the calls cs leave the stream on: the latest of the StartStream
\* and StopStream calls is a StartStream
StreamingBy(cs) ==
    \E i \in 1..Len(cs) :
        /\ cs[i].name = "StartStream"
        /\ \A j \in (i + 1)..Len(cs) : cs[j].name # "StopStream"

StreamEvents == {"connected", "disconnected"}

\* C13: with the events handled one at a time, the stream is on exactly when
\* the latest call of the capture manager is a StartStream, and when the
\* wrapper of OnConnected or OnDisconnected invokes the subscriber, the calls
\* made for the event are these, in this order: for connected, StartStream
\* then the subscriber when the stream was off as the event was raised, the
\* subscriber alone when it was on; for disconnected, StopStream then the
\* subscriber when the stream was on and no registered session is connected,
\* the subscriber alone otherwise.
C13_Stream ==
    /\ [](streaming = StreamingBy(calls))
    /\ [][\A t \in Threads :
            (/\ pc[t] = "wrapper" /\ pc'[t] = "listener"
             /\ frame[t].event \in StreamEvents) =>
               LET i == LastWrapper(calls')
                   before == StreamingBy(SubSeq(calls', 1, i - 1))
                   made == Names(calls', i)
               IN /\ calls'[i] = Call("wrapper", frame[t].event,
                                      frame[t].session)
                  /\ calls'[Len(calls')] = Call("listener", frame[t].event,
                                                frame[t].session)
                  /\ frame[t].event = "connected" =>
                        made = IF before THEN <<"listener">>
                               ELSE <<"StartStream", "listener">>
                  /\ frame[t].event = "disconnected" =>
                        made = IF before /\ ~HasConnectedMembers
                               THEN <<"StopStream", "listener">>
                               ELSE <<"listener">>]_vars

\* two sessions have connected and disconnected: the first connected started
\* the stream, the second did not, the first disconnected left it on and the
\* second stopped it
C13_Witness ==
    /\ Names(calls, 0) = <<"wrapper", "StartStream", "listener",
                           "wrapper", "listener",
                           "wrapper", "listener",
                           "wrapper", "StopStream", "listener">>
    /\ calls[1].event = "connected" /\ calls[4].event = "connected"
    /\ calls[6].event = "disconnected" /\ calls[8].event = "disconnected"
    /\ ~streaming

---------------------------------------------------------------------------
(* The host and the registry: properties *)

\* the session is the one the registry stores under its id
Stored(s) ==
    /\ sessions[s].id \in DOMAIN members
    /\ members[sessions[s].id] = s

\* C14: whatever Create, Delete, SetHost and ClearHost calls have been made,
\* the host is none or a session present in the registry, the very session
\* stored under its id.
C14_AsStated == host = NoSession \/ Stored(host)

---------------------------------------------------------------------------
(* Subscribers that call back: properties *)

\* C15: no thread holds the host lock and the registry lock at once, also
\* when the callbacks of subscribers call HasConnectedMembers, Broadcast or
\* the host operations.
C15_AsStated == \A t \in Threads : ~(hostMu = t /\ membersMu = t)

\* the thread is raising host or host_cleared: the emitter has called the
\* wrapper and the wrapper or the callback has not returned
RaisingHostEvent(t) ==
    /\ pc[t] \in {"wrapper", "listener", "listener.call"}
    /\ frame[t].event \in HostEvents

\* the callback of a host event, on thread t, is calling a host operation
CallbackCallsHost(t) ==
    /\ pc[t] = "listener"
    /\ frame[t].event \in HostEvents
    /\ listeners[frame[t].event] = "HasHost"

HostSteps == {"HasHost", "GetHost", "SetHost.host", "SetHost.Emit", "SetHost",
              "ClearHost.host", "ClearHost.Emit", "ClearHost"}

\* C16: host and host_cleared are raised while the raising thread holds
\* hostMu; once the callback of a subscriber calls a host operation, the
\* thread stays inside that call for ever: the lock is never released, the
\* SetHost or ClearHost that raised the event does not return, and no thread
\* takes a step of a host operation any more.
C16_HostCallback ==
    /\ [](\A t \in Threads : RaisingHostEvent(t) => hostMu = t)
    /\ [][\A t \in Threads :
            CallbackCallsHost(t) => CallbackCallsHost(t)' /\ hostMu' = t]_vars
    /\ [][(\E t \in Threads : CallbackCallsHost(t)) =>
             ret'.op \notin HostSteps]_vars

\* ClearHost has raised host_cleared and the callback is calling a host
\* operation, while the other thread has no operation under way
C16_Witness ==
    \E t \in Threads :
        /\ CallbackCallsHost(t)
        /\ frame[t].event = "host_cleared"
        /\ frame[t].resume = "ClearHost.Unlock"
        /\ \A u \in Threads \ {t} : Idle(u)

\* the event the operation raises
EventOf(op) == IF op = "SetHost" THEN "host" ELSE "host_cleared"

\* C19: ClearHost with no host set and a subscriber of host_cleared, and
\* likewise SetHost(none) with a subscriber of host, returns normally: the
\* subscriber has been called, with none, as the last call; the host is none;
\* hostMu is released; nothing has failed.
C19_AsStated ==
    (/\ ret.op \in {"ClearHost", "SetHost"}
     /\ ret.session = NoSession
     /\ listeners[EventOf(ret.op)] # NoListener) =>
        /\ ret.err = ""
        /\ calls # <<>>
        /\ calls[Len(calls)] = Call("listener", EventOf(ret.op), NoSession)
        /\ host = NoSession
        /\ hostMu = NoThread

---------------------------------------------------------------------------
(* The stream under concurrent events: properties *)

StreamCalls == {"StartStream", "StopStream"}

\* no event is being handled
Quiescent == \A t \in Threads : Idle(t)

\* C17: whatever the interleaving of the wrappers of connected and
\* disconnected events, when no event is being handled the stream is on if
\* and only if a registered session is connected, and the calls of the
\* capture manager alternate: no two StartStream without a StopStream
\* between them, no two StopStream without a StartStream between them.
C17_AsStated ==
    /\ Quiescent => (streaming <=> HasConnectedMembers)
    /\ \A i, j \in 1..Len(calls) :
          (i < j /\ calls[i].name \in StreamCalls
                 /\ calls[j].name = calls[i].name) =>
             \E k \in (i + 1)..(j - 1) :
                calls[k].name \in StreamCalls \ {calls[i].name}

---------------------------------------------------------------------------
(* Delete and the disconnected event: properties *)

\* the thread is inside Delete: in its body, or in the wrapper or the
\* callback of the disconnected event its forced disconnect raised
InDelete(t) ==
    \/ pc[t] \in {"Delete.IsConnected", "Delete.Disconnect", "Delete.return"}
    \/ /\ pc[t] \notin {"idle", "Delete.IsConnected", "Delete.Disconnect",
                        "Delete.return"}
       /\ frame[t].resume = "Delete.return"

\* the next step of a thread inside Delete
DeleteStep(t) ==
    \/ DeleteIsConnected(t)
    \/ DeleteDisconnect(t)
    \/ DeleteDisconnectEmit(t)
    \/ OnDisconnectedStreaming(t)
    \/ OnDisconnectedHasConnectedMembers(t)
    \/ OnDisconnectedStopStream(t)
    \/ Wrapper(t)
    \/ ListenerReturn(t)
    \/ DeleteReturn(t)

\* C18: a thread inside Delete can always take its next step, up to the
\* return that releases membersMu, also when the deleted session is
\* connected, the stream is on and the forced disconnect raises disconnected
\* before it returns.
C18_AsStated == \A t \in Threads : InDelete(t) => ENABLED DeleteStep(t)

---------------------------------------------------------------------------
(* Connected sessions and the registry: properties *)

\* C20: when no operation is under way, every session whose connected flag
\* is true is the session the registry stores under its id, whatever Create,
\* Delete, connect and disconnect have done before.
C20_AsStated ==
    Quiescent => \A s \in Refs : IsConnected(s) => Stored(s)

=============================================================================
